---------------------------- MODULE Spec2Model ----------------------------
(***************************************************************************)
(* nwbinspector: the general checks (checks/general.py), the helpers of    *)
(* utils.py and the dataset compression check exercised by                 *)
(* tests/unit_tests/test_containers.py.                                    *)
(*                                                                         *)
(* Every function is pure.  A behaviour draws one call (the function's     *)
(* arguments) in Init, and the action named after the function applies it  *)
(* and stores what it returns, or the exception it raises, in ret.         *)
(*                                                                         *)
(* Python strings are sequences of one-character strings, so that strip,   *)
(* lower and the `in` operator are computed as Python computes them.       *)
(***************************************************************************)
EXTENDS Integers, Sequences, FiniteSets, TLC

VARIABLES
    args,   \* the arguments of the call
    fn,     \* the function that has been applied to args, "" before the call
    ret     \* what the call returned or raised, Pending before the call

vars == <<args, fn, ret>>

(***************************************************************************)
(* Python values                                                           *)
(***************************************************************************)
Pending == [kind |-> "pending"]

\* Python's None, as a returned value and as an attribute value
None == [kind |-> "None"]

Raise(exc) == [kind |-> "raise", exc |-> exc]

\* a str value; chars is the sequence of its characters
Str(chars) == [kind |-> "str", chars |-> chars]

\* InspectorMessage(message=..., severity=...) as the check body builds it
InspectorMessage(message, severity) ==
    [kind |-> "InspectorMessage", message |-> message, severity |-> severity]

IsFinding(r) == r.kind = "InspectorMessage"

\* the decorator: a returned message takes the importance the check was
\* registered with; None and a raised exception pass through unchanged
register_check(importance, r) ==
    IF IsFinding(r)
    THEN [kind |-> "InspectorMessage", message |-> r.message,
          severity |-> r.severity, importance |-> importance]
    ELSE r

(***************************************************************************)
(* str methods                                                             *)
(***************************************************************************)
UpperLetters == <<"A","B","C","D","E","F","G","H","I","J","K","L","M",
                  "N","O","P","Q","R","S","T","U","V","W","X","Y","Z">>
LowerLetters == <<"a","b","c","d","e","f","g","h","i","j","k","l","m",
                  "n","o","p","q","r","s","t","u","v","w","x","y","z">>

LowerChar(c) ==
    IF \E k \in 1..Len(UpperLetters) : UpperLetters[k] = c
    THEN LowerLetters[CHOOSE k \in 1..Len(UpperLetters) : UpperLetters[k] = c]
    ELSE c

\* s.lower()
lower(s) == [k \in 1..Len(s) |-> LowerChar(s[k])]

\* s.strip(chars): the longest run of characters of chars is removed at each end
FirstKept(s, chars) ==
    IF \E k \in 1..Len(s) : s[k] \notin chars
    THEN CHOOSE k \in 1..Len(s) :
            /\ s[k] \notin chars
            /\ \A j \in 1..(k-1) : s[j] \in chars
    ELSE Len(s) + 1

LastKept(s, chars) ==
    IF \E k \in 1..Len(s) : s[k] \notin chars
    THEN CHOOSE k \in 1..Len(s) :
            /\ s[k] \notin chars
            /\ \A j \in (k+1)..Len(s) : s[j] \in chars
    ELSE 0

strip(s, chars) == SubSeq(s, FirstKept(s, chars), LastKept(s, chars))

\* x in s, for a one-character x
Contains(s, x) == \E k \in 1..Len(s) : s[k] = x

(***************************************************************************)
(* checks/general.py                                                       *)
(***************************************************************************)
CRITICAL == "CRITICAL"
BEST_PRACTICE_VIOLATION == "BEST_PRACTICE_VIOLATION"
BEST_PRACTICE_SUGGESTION == "BEST_PRACTICE_SUGGESTION"

NO_SEVERITY == "NO_SEVERITY"
LOW == "LOW"
HIGH == "HIGH"

COMMON_DESCRIPTION_PLACEHOLDERS ==
    { <<"n","o"," ","d","e","s","c","r","i","p","t","i","o","n">>,
      <<"n","o"," ","d","e","s","c">>,
      <<"n","o","n","e">> }

\* a node is the set of attributes it has and their values
hasattr(obj, a) == a \in obj.attrs

\* obj.a: reading an attribute the node lacks raises AttributeError
getattr(obj, a) == IF hasattr(obj, a) THEN obj[a] ELSE Raise("AttributeError")

\* as check_name_slashes_body, testing the forward slash alone
check_name_slashes_forward_only(obj) ==
    IF ~hasattr(obj, "name")
    THEN None
    ELSE LET name == getattr(obj, "name") IN
         IF Contains(name.chars, "/")
         THEN InspectorMessage(<<"Object name contains slashes, .">>, NO_SEVERITY)
         ELSE None

check_name_slashes_body(obj) ==
    IF ~hasattr(obj, "name")
    THEN None
    ELSE LET name == getattr(obj, "name") IN
         IF \E x \in {"/", "\\"} : Contains(name.chars, x)
         THEN InspectorMessage(<<"Object name contains slashes, .">>, NO_SEVERITY)
         ELSE None

check_name_slashes(obj) == register_check(CRITICAL, check_name_slashes_body(obj))

\* as check_description_body, reading obj.description without the hasattr probe
check_description_unprobed(obj) ==
    LET description == getattr(obj, "description") IN
    IF description.kind = "raise"
    THEN description
    ELSE IF description = None \/ strip(description.chars, {" "}) = <<>>
         THEN InspectorMessage(<<"Description is missing.">>, NO_SEVERITY)
         ELSE IF strip(lower(description.chars), {"."})
                    \in COMMON_DESCRIPTION_PLACEHOLDERS
              THEN InspectorMessage(
                       <<"Description (", description.chars, ") is a placeholder.">>,
                       NO_SEVERITY)
              ELSE None

check_description_body(obj) ==
    IF ~hasattr(obj, "description")
    THEN None
    ELSE LET description == getattr(obj, "description") IN
         IF description = None \/ strip(description.chars, {" "}) = <<>>
         THEN InspectorMessage(<<"Description is missing.">>, NO_SEVERITY)
         ELSE IF strip(lower(description.chars), {"."})
                    \in COMMON_DESCRIPTION_PLACEHOLDERS
              THEN InspectorMessage(
                       <<"Description (", description.chars, ") is a placeholder.">>,
                       NO_SEVERITY)
              ELSE None

check_description(obj) ==
    register_check(BEST_PRACTICE_SUGGESTION, check_description_body(obj))

(***************************************************************************)
(* The nodes the checks are applied to                                     *)
(***************************************************************************)
MaxNameLen == 3
MaxPad == 1

SeqsUpTo(S, n) == UNION { [1..k -> S] : k \in 0..n }

NameChars == {"a", "/", "\\"}
Names == { Str(s) : s \in SeqsUpTo(NameChars, MaxNameLen) }

PadChars == {" ", "\t", "."}
Pads == SeqsUpTo(PadChars, MaxPad)

DescriptionCores ==
    { <<>>,
      <<"n","o","n","e">>,
      <<"N","o","n","e">>,
      <<"N","O","N","E">>,
      <<"n",".","o","n","e">>,
      <<"n","o"," ","d","e","s","c">>,
      <<"N","o"," ","D","e","s","c">>,
      <<"n","o"," ","d","e","s","c","r","i","p","t","i","o","n">>,
      <<"N","O"," ","D","E","S","C","R","I","P","T","I","O","N">>,
      <<"n","o"," ","d","e","s","c","r">>,
      <<"s","p","i","k","e","s">> }

Descriptions ==
    { Str(p \o c \o q) : p \in Pads, c \in DescriptionCores, q \in Pads }
    \cup {None}

PlainName == Str(<<"a">>)
PlainDescription == Str(<<"s","p","i","k","e","s">>)

Node(attrs, name, description) ==
    [attrs |-> attrs, name |-> name, description |-> description]

\* stands where a node has no attribute, or a call no argument; never read
Absent == [kind |-> "absent"]

Nodes ==
    { Node({"name", "description"} \cup extra, n, d) :
        n \in Names, d \in {PlainDescription, None}, extra \in {{}, {"data"}} }
    \cup
    { Node({"name"} \cup extra, n, Absent) :
        n \in Names, extra \in {{}, {"data"}} }
    \cup
    { Node({"name", "description"} \cup extra, PlainName, d) :
        d \in Descriptions, extra \in {{}, {"data"}} }
    \cup
    { Node({"description"} \cup extra, Absent, d) :
        d \in Descriptions, extra \in {{}, {"data"}} }
    \cup
    { Node(extra, Absent, Absent) : extra \in {{}, {"data"}} }

InitChecks ==
    /\ args \in { [obj |-> o] : o \in Nodes }
    /\ fn = ""
    /\ ret = Pending

Call_check_name_slashes ==
    /\ fn = ""
    /\ "obj" \in DOMAIN args
    /\ fn' = "check_name_slashes"
    /\ ret' = check_name_slashes(args.obj)
    /\ UNCHANGED args

Call_check_description ==
    /\ fn = ""
    /\ "obj" \in DOMAIN args
    /\ fn' = "check_description"
    /\ ret' = check_description(args.obj)
    /\ UNCHANGED args

NextChecks == Call_check_name_slashes \/ Call_check_description

SpecChecks == InitChecks /\ [][NextChecks]_vars

(***************************************************************************)
(* Claims about checks/general.py, checked under SpecChecks                *)
(***************************************************************************)
Whitespace == {" ", "\t", "\n", "\r"}

HasSlash(chars) == \E k \in 1..Len(chars) : chars[k] = "/" \/ chars[k] = "\\"

OneFindingAt(r, importance) == IsFinding(r) /\ r.importance = importance

\* C1: a description that is empty, made only of whitespace characters of
\* any kind, or a placeholder up to letter case and surrounding periods,
\* gets exactly one finding at BEST_PRACTICE_SUGGESTION from check_description.
C1_BlankOrPlaceholderIsReported ==
    (/\ fn = "check_description"
     /\ hasattr(args.obj, "description")
     /\ args.obj.description # None
     /\ \/ \A k \in 1..Len(args.obj.description.chars) :
              args.obj.description.chars[k] \in Whitespace
        \/ strip(lower(args.obj.description.chars), {"."})
              \in COMMON_DESCRIPTION_PLACEHOLDERS)
    => OneFindingAt(ret, BEST_PRACTICE_SUGGESTION)

\* C2: on a node that has a name, check_name_slashes returns one finding at
\* CRITICAL when the name holds a forward or a backward slash, and None for
\* every other name.
C2_SlashInNameIsCritical ==
    (fn = "check_name_slashes" /\ hasattr(args.obj, "name"))
    => IF HasSlash(args.obj.name.chars)
       THEN OneFindingAt(ret, CRITICAL)
       ELSE ret = None

C2_Witness ==
    /\ fn = "check_name_slashes"
    /\ hasattr(args.obj, "name")
    /\ Contains(args.obj.name.chars, "\\")
    /\ ~Contains(args.obj.name.chars, "/")
    /\ OneFindingAt(ret, CRITICAL)

\* C3: a node without the description attribute gets None from
\* check_description, a node without the name attribute gets None from
\* check_name_slashes, and neither call raises, whatever else the node has.
C3_AbsentAttributeIsSkipped ==
    /\ (fn = "check_description" /\ ~hasattr(args.obj, "description"))
          => ret = None
    /\ (fn = "check_name_slashes" /\ ~hasattr(args.obj, "name"))
          => ret = None

C3_Witness ==
    /\ fn = "check_description"
    /\ args.obj.attrs = {"name", "data"}
    /\ ret = None

(***************************************************************************)
(* utils.py: get_thread_max_workers                                        *)
(*                                                                         *)
(* A call is the set of keyword arguments it gives and their values; an    *)
(* argument the call does not give takes the default of the signature.     *)
(***************************************************************************)
PyInt(n) == [kind |-> "int", value |-> n]
PyBool(b) == [kind |-> "bool", value |-> b]

Arg(call, name, default) == IF name \in call.given THEN call[name] ELSE default

Default_n_jobs == 1
Default_workers_per_thread == 5

\* as max_workers_of, multiplying by the default whatever workers_per_thread is
max_workers_fixed_multiplier(n_jobs, workers_per_thread) ==
    IF n_jobs # -1
    THEN PyInt(n_jobs * Default_workers_per_thread)
    ELSE None

\* as max_workers_of, treating every n_jobs that is not positive as the sentinel
max_workers_positive_only(n_jobs, workers_per_thread) ==
    IF n_jobs > 0
    THEN PyInt(n_jobs * workers_per_thread)
    ELSE None

\* the body of get_thread_max_workers
max_workers_of(n_jobs, workers_per_thread) ==
    IF n_jobs # -1
    THEN PyInt(n_jobs * workers_per_thread)
    ELSE None

get_thread_max_workers(call) ==
    max_workers_of(Arg(call, "n_jobs", Default_n_jobs),
                   Arg(call, "workers_per_thread", Default_workers_per_thread))

MaxJobs == 4
MaxWorkersPerThread == 6

WorkerCalls ==
    { [given |-> {"n_jobs", "workers_per_thread"}, n_jobs |-> n,
       workers_per_thread |-> w] :
        n \in -MaxJobs..MaxJobs, w \in -MaxWorkersPerThread..MaxWorkersPerThread }
    \cup
    { [given |-> {"n_jobs"}, n_jobs |-> n, workers_per_thread |-> 0] :
        n \in -MaxJobs..MaxJobs }
    \cup
    { [given |-> {"workers_per_thread"}, n_jobs |-> 0, workers_per_thread |-> w] :
        w \in -MaxWorkersPerThread..MaxWorkersPerThread }
    \cup
    { [given |-> {}, n_jobs |-> 0, workers_per_thread |-> 0] }

InitWorkers ==
    /\ args \in WorkerCalls
    /\ fn = ""
    /\ ret = Pending

Call_get_thread_max_workers ==
    /\ fn = ""
    /\ "n_jobs" \in DOMAIN args
    /\ fn' = "get_thread_max_workers"
    /\ ret' = get_thread_max_workers(args)
    /\ UNCHANGED args

NextWorkers == Call_get_thread_max_workers

SpecWorkers == InitWorkers /\ [][NextWorkers]_vars

(***************************************************************************)
(* Claims about get_thread_max_workers, checked under SpecWorkers          *)
(***************************************************************************)
\* the arguments as the caller sees them: those given, and 1 and 5 otherwise
Given_n_jobs == IF "n_jobs" \in args.given THEN args.n_jobs ELSE 1
Given_workers_per_thread ==
    IF "workers_per_thread" \in args.given THEN args.workers_per_thread ELSE 5

\* C6: a positive n_jobs gives n_jobs * workers_per_thread, the multiplier
\* being 5 when not given, so that the call without arguments gives 5; the
\* sentinel n_jobs = -1 gives None whatever workers_per_thread is.
C6_WorkerCountPolicy ==
    fn = "get_thread_max_workers" =>
        /\ Given_n_jobs > 0
              => ret = PyInt(Given_n_jobs * Given_workers_per_thread)
        /\ args.given = {} => ret = PyInt(5)
        /\ Given_n_jobs = -1 => ret = None

C6_Witness ==
    /\ fn = "get_thread_max_workers"
    /\ args.given = {"n_jobs", "workers_per_thread"}
    /\ args.n_jobs = 3
    /\ args.workers_per_thread = 4
    /\ ret = PyInt(12)

\* C10: None is returned exactly when n_jobs is -1; every other n_jobs, zero
\* and those below -1 included, gives the product without raising, which is
\* positive exactly when both factors are non-zero and of the same sign.
C10_NoValidation ==
    fn = "get_thread_max_workers" =>
        /\ ret = None <=> Given_n_jobs = -1
        /\ Given_n_jobs # -1 =>
              /\ ret = PyInt(Given_n_jobs * Given_workers_per_thread)
              /\ ret.value > 0 <=>
                    \/ Given_n_jobs > 0 /\ Given_workers_per_thread > 0
                    \/ Given_n_jobs < 0 /\ Given_workers_per_thread < 0

C10_Witness ==
    /\ fn = "get_thread_max_workers"
    /\ "n_jobs" \in args.given
    /\ args.n_jobs < -1
    /\ "workers_per_thread" \in args.given
    /\ args.workers_per_thread > 0
    /\ ret.kind = "int"
    /\ ret.value < 0

(***************************************************************************)
(* utils.py: check_regular_series and is_ascending_series                  *)
(*                                                                         *)
(* A series is a sequence of decimal numbers with UnitDecimals decimal     *)
(* places, each held as its count of units of 10^-UnitDecimals, so that    *)
(* differences and rounding to a number of decimals are exact.             *)
(***************************************************************************)
UnitDecimals == 1
Default_tolerance_decimals == 9

RECURSIVE Pow(_, _)
Pow(b, e) == IF e = 0 THEN 1 ELSE b * Pow(b, e - 1)

\* np.diff(series): the differences of consecutive elements
diff(series) ==
    IF Len(series) < 2
    THEN <<>>
    ELSE [k \in 1..(Len(series) - 1) |-> series[k + 1] - series[k]]

\* x.round(decimals): to the nearest multiple of 10^-decimals, a tie going to
\* the even multiple; a value with no more decimals than asked is unchanged
round(x, decimals) ==
    IF decimals >= UnitDecimals
    THEN x
    ELSE LET step == Pow(10, UnitDecimals - decimals)
             q == x \div step
             r == x % step
         IN  IF 2 * r < step THEN q * step
             ELSE IF 2 * r > step THEN (q + 1) * step
             ELSE IF q % 2 = 0 THEN q * step ELSE (q + 1) * step

RoundAll(xs, decimals) == [k \in 1..Len(xs) |-> round(xs[k], decimals)]

\* np.unique(xs): the distinct values of xs in ascending order
RECURSIVE SortedSeq(_)
SortedSeq(S) ==
    IF S = {}
    THEN <<>>
    ELSE LET m == CHOOSE x \in S : \A y \in S : x <= y
         IN  <<m>> \o SortedSeq(S \ {m})

unique(xs) == SortedSeq({ xs[k] : k \in 1..Len(xs) })

\* as regular_series_of, without rounding the differences
regular_series_unrounded(series, tolerance_decimals) ==
    LET uniq_diff_ts == unique(diff(series))
    IN  PyBool(Len(uniq_diff_ts) = 1)

\* the body of check_regular_series
regular_series_of(series, tolerance_decimals) ==
    LET uniq_diff_ts == unique(RoundAll(diff(series), tolerance_decimals))
    IN  PyBool(Len(uniq_diff_ts) = 1)

check_regular_series(call) ==
    regular_series_of(call.series,
                      Arg(call, "tolerance_decimals", Default_tolerance_decimals))

Min(a, b) == IF a < b THEN a ELSE b
Max(a, b) == IF a > b THEN a ELSE b

\* series[:nelems]: all of it for None, the first nelems elements for a
\* count, all but the last -nelems elements for a negative nelems
SliceTo(series, nelems) ==
    IF nelems = None
    THEN series
    ELSE IF nelems.value >= 0
         THEN SubSeq(series, 1, Min(nelems.value, Len(series)))
         ELSE SubSeq(series, 1, Max(Len(series) + nelems.value, 0))

\* np.all(xs > 0)
AllPositive(xs) == \A k \in 1..Len(xs) : xs[k] > 0

\* as ascending_series_of, accepting equal neighbours
ascending_series_non_strict(series, nelems) ==
    PyBool(\A k \in 1..Len(diff(SliceTo(series, nelems))) :
              diff(SliceTo(series, nelems))[k] >= 0)

\* the body of is_ascending_series
ascending_series_of(series, nelems) ==
    PyBool(AllPositive(diff(SliceTo(series, nelems))))

is_ascending_series(call) ==
    ascending_series_of(call.series, Arg(call, "nelems", None))

MaxSeriesLen == 3
MaxTick == 7
MaxDecimals == 2

\* the calls drawn: check_regular_series(s), check_regular_series(s, d),
\* is_ascending_series(s) and is_ascending_series(s, n), for every series s
\* of at most MaxSeriesLen elements between 0 and MaxTick units
InitSeries ==
    /\ \E len \in 0..MaxSeriesLen : \E s \in [1..len -> 0..MaxTick] :
          \/ \E d \in 0..MaxDecimals :
                args = [given |-> {"series", "tolerance_decimals"}, series |-> s,
                        tolerance_decimals |-> d]
          \/ args = [given |-> {"series"}, series |-> s, tolerance_decimals |-> 0]
          \/ \E n \in (-MaxSeriesLen)..(MaxSeriesLen + 1) :
                args = [given |-> {"series", "nelems"}, series |-> s,
                        nelems |-> PyInt(n)]
          \/ args = [given |-> {"series"}, series |-> s, nelems |-> None]
    /\ fn = ""
    /\ ret = Pending

Call_check_regular_series ==
    /\ fn = ""
    /\ "tolerance_decimals" \in DOMAIN args
    /\ fn' = "check_regular_series"
    /\ ret' = check_regular_series(args)
    /\ UNCHANGED args

Call_is_ascending_series ==
    /\ fn = ""
    /\ "nelems" \in DOMAIN args
    /\ fn' = "is_ascending_series"
    /\ ret' = is_ascending_series(args)
    /\ UNCHANGED args

NextSeries == Call_check_regular_series \/ Call_is_ascending_series

SpecSeries == InitSeries /\ [][NextSeries]_vars

(***************************************************************************)
(* Claims about the series helpers, checked under SpecSeries               *)
(***************************************************************************)
Given_tolerance_decimals ==
    IF "tolerance_decimals" \in args.given THEN args.tolerance_decimals ELSE 9

\* the spacings of the series, each rounded to the tolerance
RoundedSpacings ==
    { round(args.series[k + 1] - args.series[k], Given_tolerance_decimals) :
        k \in 1..(Len(args.series) - 1) }

\* C8: check_regular_series is true exactly when the rounded spacings take
\* one distinct value: with two elements or more, exactly when all rounded
\* spacings are equal; with fewer than two elements it is false.
C8_RegularIffOneSpacing ==
    fn = "check_regular_series" =>
        /\ ret = PyBool(Cardinality(RoundedSpacings) = 1)
        /\ Len(args.series) >= 2 =>
              (ret = PyBool(TRUE) <=>
                  \A x \in RoundedSpacings, y \in RoundedSpacings : x = y)
        /\ Len(args.series) < 2 => ret = PyBool(FALSE)

\* spacings that differ and are equal once rounded
C8_Witness ==
    /\ fn = "check_regular_series"
    /\ Len(args.series) >= 3
    /\ \E k \in 1..(Len(args.series) - 2) :
          args.series[k + 1] - args.series[k]
             # args.series[k + 2] - args.series[k + 1]
    /\ ret = PyBool(TRUE)

\* the number of leading elements is_ascending_series looks at, for nelems
\* a count or not given
PrefixLen ==
    IF "nelems" \in args.given
    THEN Min(args.nelems.value, Len(args.series))
    ELSE Len(args.series)

\* C9: is_ascending_series is true exactly when every two consecutive
\* elements among the first nelems (all, when nelems is not given) are
\* strictly increasing; later elements do not count, and a prefix of fewer
\* than two elements is ascending.
C9_AscendingIffStrictPrefix ==
    (/\ fn = "is_ascending_series"
     /\ "nelems" \in args.given => args.nelems.value >= 0)
    => /\ ret = PyBool(\A k \in 1..(PrefixLen - 1) :
                          args.series[k] < args.series[k + 1])
       /\ PrefixLen < 2 => ret = PyBool(TRUE)

\* a decrease after the first nelems elements leaves the series ascending
C9_Witness ==
    /\ fn = "is_ascending_series"
    /\ "nelems" \in args.given
    /\ args.nelems.value = 2
    /\ Len(args.series) >= 3
    /\ args.series[3] < args.series[2]
    /\ ret = PyBool(TRUE)

(***************************************************************************)
(* utils.py: format_byte_size                                              *)
(*                                                                         *)
(* Byte counts run past 1000^8, beyond the integers TLC holds, so a count  *)
(* is a sign and the sequence of its digits in the radix of the convention *)
(* it is formatted under (1000 or 1024), lowest digit first and the        *)
(* highest digit non-zero.  num, the count divided by order some number of *)
(* times, is the same digits with `point` of them behind the radix point.  *)
(*                                                                         *)
(* In the code num is a double.  The calls drawn here are the counts       *)
(* m * order^z whose m has at most ExactDigits digits: m is below 2^53,    *)
(* and on these counts the double arithmetic selects the prefix and the    *)
(* two decimals that exact arithmetic selects.  The one place left to the  *)
(* double is a decimal tie (a third decimal of exactly 5) under order 1000,*)
(* where the nearest double lies on either side: both roundings are        *)
(* outcomes.  Under order 1024 every quotient is exact and a tie goes to   *)
(* the even hundredth.                                                     *)
(***************************************************************************)
prefixes == <<"", "K", "M", "G", "T", "P", "E", "Z">>

DoubleMantissaBits == 53
ExactDigits == DoubleMantissaBits \div 10

\* as units_convention, falling back to SI for an unrecognised convention
units_convention_defaulting(units) ==
    IF units = "binary"
    THEN [kind |-> "units", order |-> 1024, suffix |-> "iB"]
    ELSE [kind |-> "units", order |-> 1000, suffix |-> "B"]

\* the if/elif/else on units: the order and the suffix, or ValueError
units_convention(units) ==
    IF units = "SI"
    THEN [kind |-> "units", order |-> 1000, suffix |-> "B"]
    ELSE IF units = "binary"
         THEN [kind |-> "units", order |-> 1024, suffix |-> "iB"]
         ELSE Raise("ValueError")

DigitAt(ds, k) == IF k >= 1 /\ k <= Len(ds) THEN ds[k] ELSE 0

\* as AbsBelowOrder, with <= in place of <
AbsAtMostOrder(num) ==
    \/ Len(num.digits) - num.point <= 1
    \/ /\ Len(num.digits) - num.point = 2
       /\ num.digits[Len(num.digits)] = 1
       /\ \A k \in 1..(Len(num.digits) - 1) : num.digits[k] = 0

\* abs(num) < order: at most one digit stands before the radix point
AbsBelowOrder(num) == Len(num.digits) - num.point <= 1

\* num /= order
DivideByOrder(num) == [num EXCEPT !.point = @ + 1]

\* digits * m in radix `order`
RECURSIVE MulDigits(_, _, _, _)
MulDigits(ds, m, carry, order) ==
    IF ds = <<>>
    THEN IF carry = 0
         THEN <<>>
         ELSE <<carry % order>> \o MulDigits(<<>>, m, carry \div order, order)
    ELSE LET v == Head(ds) * m + carry
         IN  <<v % order>> \o MulDigits(Tail(ds), m, v \div order, order)

RECURSIVE ValueOf(_, _)
ValueOf(ds, order) ==
    IF ds = <<>> THEN 0 ELSE Head(ds) + order * ValueOf(Tail(ds), order)

\* f"{num:.2f}": the sign of num and abs(num) in hundredths, rounded to the
\* nearest; the set of outcomes has two elements on a decimal tie whose
\* quotient is not exact
Format2f(num, order) ==
    LET scaled == MulDigits(num.digits, 100, 0, order)
        whole == ValueOf(SubSeq(scaled, num.point + 1, Len(scaled)), order)
        first == DigitAt(scaled, num.point)
        rest == \E k \in 1..(num.point - 1) : DigitAt(scaled, k) # 0
        half == order \div 2
        up == first > half \/ (first = half /\ rest)
        tie == num.point > 0 /\ first = half /\ ~rest
        rounded ==
            IF tie
            THEN IF order = 1024
                 THEN {IF whole % 2 = 0 THEN whole ELSE whole + 1}
                 ELSE {whole, whole + 1}
            ELSE IF num.point > 0 /\ up THEN {whole + 1} ELSE {whole}
    IN  { [neg |-> num.neg, hundredths |-> h] : h \in rounded }

\* the formatted string: its number, then its prefix, then its suffix
FString(number, prefix, suffix) ==
    [kind |-> "str", parts |-> <<number, prefix, suffix>>]

\* the for loop over prefixes, from the p-th prefix on, and the return after it
RECURSIVE format_loop(_, _, _, _)
format_loop(num, p, order, suffix) ==
    IF p > Len(prefixes)
    THEN { FString(n, "Y", suffix) : n \in Format2f(num, order) }
    ELSE IF AbsBelowOrder(num)
         THEN { FString(n, prefixes[p], suffix) : n \in Format2f(num, order) }
         ELSE format_loop(DivideByOrder(num), p + 1, order, suffix)

Default_units == "SI"

\* the outcomes of format_byte_size(byte_size, units)
format_byte_size(call) ==
    LET convention == units_convention(Arg(call, "units", Default_units))
        num == [neg |-> call.byte_size.neg, digits |-> call.byte_size.digits,
                point |-> 0]
    IN  IF convention.kind = "raise"
        THEN {convention}
        ELSE format_loop(num, 1, convention.order, convention.suffix)

MaxDigits == 9

DigitChoices(order) == {0, 1, 5, 128, 384, order - 1}

Zeros(z) == [k \in 1..z |-> 0]

\* m * order^z: the digits of m above z zero digits
Shifted(m, z) == Zeros(z) \o m

SmallByteSizes ==
    { [neg |-> n, digits |-> m] :
        n \in BOOLEAN, m \in { <<1>>, <<5, 1>>, Shifted(<<1>>, MaxDigits - 1) } }
    \cup { [neg |-> FALSE, digits |-> <<>>] }

InvalidUnits == {"", "si", "Si", "binary ", "Binary", "BINARY", "decimal", "iB"}

\* the calls drawn: format_byte_size(b, units=u) and format_byte_size(b) for
\* b zero and every m * order^z of at most MaxDigits digits whose m has at
\* most ExactDigits digits taken from DigitChoices, and the calls with a
\* convention that is neither "SI" nor "binary"
InitFormat ==
    /\ \/ \E u \in {"SI", "binary"}, len \in 1..ExactDigits,
             z \in 0..(MaxDigits - 1), n \in BOOLEAN :
             /\ len + z <= MaxDigits
             /\ \E m \in [1..len -> DigitChoices(units_convention(u).order)] :
                   /\ m[len] # 0
                   /\ \/ args = [given |-> {"byte_size", "units"},
                                 byte_size |-> [neg |-> n,
                                                digits |-> Shifted(m, z)],
                                 units |-> u]
                      \/ /\ u = Default_units
                         /\ args = [given |-> {"byte_size"},
                                    byte_size |-> [neg |-> n,
                                                   digits |-> Shifted(m, z)],
                                    units |-> ""]
       \/ \E u \in {"SI", "binary"} :
             args = [given |-> {"byte_size", "units"},
                     byte_size |-> [neg |-> FALSE, digits |-> <<>>], units |-> u]
       \/ args = [given |-> {"byte_size"},
                  byte_size |-> [neg |-> FALSE, digits |-> <<>>], units |-> ""]
       \/ \E b \in SmallByteSizes, u \in InvalidUnits :
             args = [given |-> {"byte_size", "units"}, byte_size |-> b,
                     units |-> u]
    /\ fn = ""
    /\ ret = Pending

Call_format_byte_size ==
    /\ fn = ""
    /\ "byte_size" \in DOMAIN args
    /\ fn' = "format_byte_size"
    /\ ret' \in format_byte_size(args)
    /\ UNCHANGED args

NextFormat == Call_format_byte_size

SpecFormat == InitFormat /\ [][NextFormat]_vars

(***************************************************************************)
(* Claims about format_byte_size, checked under SpecFormat                 *)
(***************************************************************************)
Given_units == IF "units" \in args.given THEN args.units ELSE "SI"

Divisor == IF Given_units = "SI" THEN 1000 ELSE 1024
Suffix == IF Given_units = "SI" THEN "B" ELSE "iB"

Ladder == <<"", "K", "M", "G", "T", "P", "E", "Z", "Y">>

\* |b| < Divisor^e, b being written in radix Divisor
BelowPower(e) == Len(args.byte_size.digits) <= e

\* the smallest i of 0..7 with |b| < Divisor^(i+1), and 8 when there is none
LadderIndex ==
    IF \E i \in 0..7 : BelowPower(i + 1)
    THEN CHOOSE i \in 0..7 :
            BelowPower(i + 1) /\ \A j \in 0..(i - 1) : ~BelowPower(j + 1)
    ELSE 8

\* the whole part of |b| / Divisor^LadderIndex
WholePart ==
    ValueOf(SubSeq(args.byte_size.digits, LadderIndex + 1,
                   Len(args.byte_size.digits)), Divisor)

Formatted == fn = "format_byte_size" /\ Given_units \in {"SI", "binary"}

C5_InvalidUnitsRaise ==
    (/\ fn = "format_byte_size"
     /\ "units" \in args.given
     /\ args.units \notin {"SI", "binary"})
    => ret = Raise("ValueError")

C5_Witness ==
    /\ fn = "format_byte_size"
    /\ "units" \in args.given
    /\ args.units = "si"
    /\ Len(args.byte_size.digits) = MaxDigits
    /\ ret = Raise("ValueError")

(***************************************************************************)
(* The dataset compression check of tests/unit_tests/test_containers.py.   *)
(* Its body is not among the sources; it is written from the design        *)
(* document's contract and the tests' expectations.  Sizes and thresholds  *)
(* are in megabytes: gb_size 0.1 is 100, gb_severity_threshold 0.15 is 150.*)
(***************************************************************************)
\* the size below which a dataset is left alone (the tests' "below_50MB")
Default_mb_lower_bound == 50

\* above 0.1 GB, as the default-threshold test expects no severity there
Default_severity_threshold_mb == 10000

NotCompressedText ==
    " is not compressed. Consider enabling compression when writing a dataset."

\* as compression_finding, with HIGH from the severity threshold on
compression_finding_high_at_threshold(dataset, lower_mb, severity_mb) ==
    IF dataset.compression # "None"
    THEN None
    ELSE IF dataset.size_mb < lower_mb
         THEN None
         ELSE InspectorMessage(<<dataset.name, NotCompressedText>>,
                  IF dataset.size_mb >= severity_mb THEN HIGH ELSE NO_SEVERITY)

\* the finding for one dataset of the container
compression_finding(dataset, lower_mb, severity_mb) ==
    IF dataset.compression # "None"
    THEN None
    ELSE IF dataset.size_mb < lower_mb
         THEN None
         ELSE InspectorMessage(<<dataset.name, NotCompressedText>>,
                  IF dataset.size_mb > severity_mb THEN HIGH ELSE NO_SEVERITY)

check_small_dataset_compression(call) ==
    register_check(BEST_PRACTICE_SUGGESTION,
        compression_finding(call.dataset,
            Arg(call, "mb_lower_bound", Default_mb_lower_bound),
            Arg(call, "gb_severity_threshold", Default_severity_threshold_mb)))

MaxSizeTens == 25
MaxThresholdSteps == 5

DatasetSizes == {1} \cup { 10 * k : k \in 0..MaxSizeTens }
Thresholds == { 50 * k : k \in 1..MaxThresholdSteps }

Datasets ==
    [name : {"test_dataset"}, size_mb : DatasetSizes, compression : {"None", "gzip"}]

CompressionCalls ==
    { [given |-> {"nwb_container"} \cup g, dataset |-> d,
       gb_severity_threshold |-> IF "gb_severity_threshold" \in g THEN t ELSE 0,
       mb_lower_bound |-> IF "mb_lower_bound" \in g THEN l ELSE 0] :
        d \in Datasets, t \in Thresholds, l \in Thresholds,
        g \in SUBSET {"gb_severity_threshold", "mb_lower_bound"} }

InitCompression ==
    /\ args \in CompressionCalls
    /\ fn = ""
    /\ ret = Pending

Call_check_small_dataset_compression ==
    /\ fn = ""
    /\ "dataset" \in DOMAIN args
    /\ fn' = "check_small_dataset_compression"
    /\ ret' = check_small_dataset_compression(args)
    /\ UNCHANGED args

NextCompression == Call_check_small_dataset_compression

SpecCompression == InitCompression /\ [][NextCompression]_vars

(***************************************************************************)
(* Claims about the dataset compression check, under SpecCompression       *)
(***************************************************************************)
Given_lower ==
    IF "mb_lower_bound" \in args.given
    THEN args.mb_lower_bound ELSE Default_mb_lower_bound

Given_severity_threshold ==
    IF "gb_severity_threshold" \in args.given
    THEN args.gb_severity_threshold ELSE Default_severity_threshold_mb

NotCompressedFinding(r, severity) ==
    /\ OneFindingAt(r, BEST_PRACTICE_SUGGESTION)
    /\ r.message = <<args.dataset.name,
          " is not compressed. Consider enabling compression when writing a dataset.">>
    /\ r.severity = severity

\* C7: an uncompressed dataset below the lower size threshold gets no
\* finding; at or above it, one "is not compressed" finding at
\* BEST_PRACTICE_SUGGESTION, HIGH when the size exceeds the severity
\* threshold and NO_SEVERITY otherwise.  0.1 GB with the defaults and 0.1 GB
\* against 0.15 GB give NO_SEVERITY, 0.2 GB against 0.15 GB gives HIGH, and
\* 0.001 GB gives no finding.
C7_CompressionFindingBySize ==
    (fn = "check_small_dataset_compression" /\ args.dataset.compression = "None")
    => /\ args.dataset.size_mb < Given_lower => ret = None
       /\ args.dataset.size_mb >= Given_lower =>
             NotCompressedFinding(ret,
                 IF args.dataset.size_mb > Given_severity_threshold
                 THEN "HIGH" ELSE "NO_SEVERITY")
       /\ (args.dataset.size_mb = 100 /\ args.given = {"nwb_container"})
             => NotCompressedFinding(ret, "NO_SEVERITY")
       /\ (/\ args.dataset.size_mb = 100
           /\ args.given = {"nwb_container", "gb_severity_threshold"}
           /\ args.gb_severity_threshold = 150)
             => NotCompressedFinding(ret, "NO_SEVERITY")
       /\ (/\ args.dataset.size_mb = 200
           /\ args.given = {"nwb_container", "gb_severity_threshold"}
           /\ args.gb_severity_threshold = 150)
             => NotCompressedFinding(ret, "HIGH")
       /\ (args.dataset.size_mb = 1 /\ "mb_lower_bound" \notin args.given)
             => ret = None

C7_Witness ==
    /\ fn = "check_small_dataset_compression"
    /\ args.dataset.compression = "None"
    /\ args.dataset.size_mb = 200
    /\ args.given = {"nwb_container", "gb_severity_threshold"}
    /\ args.gb_severity_threshold = 150
    /\ IsFinding(ret)
    /\ ret.severity = "HIGH"

(***************************************************************************)
(* Every function together                                                 *)
(***************************************************************************)
Init ==
    \/ InitChecks
    \/ InitWorkers
    \/ InitSeries
    \/ InitFormat
    \/ InitCompression

Next ==
    \/ Call_check_name_slashes
    \/ Call_check_description
    \/ Call_get_thread_max_workers
    \/ Call_check_regular_series
    \/ Call_is_ascending_series
    \/ Call_format_byte_size
    \/ Call_check_small_dataset_compression

Spec == Init /\ [][Next]_vars

=============================================================================
